---- MODULE Spec2Model ----
(***************************************************************************)
(* Gate-level model of the Hamiltonian-simulation kernels:                 *)
(*   src/hamiltonian-simulation/qiskit/hamiltonian_simulation_kernel.py    *)
(*   src/hamlib/qiskit/hamlib_simulation_kernel.py                         *)
(*                                                                         *)
(* A circuit is the ordered sequence of its instructions.  An instruction  *)
(* is a record                                                             *)
(*    g    the gate name ("rx", "cx", "barrier", "measure", ...) or, for an *)
(*         appended sub-circuit, the name of that circuit ("XX", ...)      *)
(*    q    the qubits it acts on, in operand order                         *)
(*    a    the rotation angle (NoAngle when the gate has none)             *)
(*    c    the classical bits it writes (measurements only)                *)
(*    ops  the definition of an appended sub-circuit, over its own qubits  *)
(*         0.. (empty for a primitive gate)                                *)
(* Angles are exact: a rational multiple of pi plus a rational number of   *)
(* radians.  The dagger of the source's circuit names is written "_dg".    *)
(***************************************************************************)
EXTENDS Integers, Sequences, FiniteSets, TLC

(***************************************************************************)
(* Bounds of the model.                                                    *)
(***************************************************************************)
MaxSpins == 4
MaxK == 2
ShortLen == 2
MaxQubits == 4

(***************************************************************************)
(* Rational arithmetic: <<numerator, denominator>>, denominator > 0,       *)
(* lowest terms.                                                           *)
(***************************************************************************)
Abs(x) == IF x < 0 THEN -x ELSE x

Min(x, y) == IF x <= y THEN x ELSE y

RECURSIVE Gcd(_, _)
Gcd(x, y) == IF y = 0 THEN x ELSE Gcd(y, x % y)

Rat(n, d) ==
  LET g == Gcd(Abs(n), Abs(d))
      s == IF d < 0 THEN -1 ELSE 1
  IN  <<(s * n) \div g, (s * d) \div g>>

RInt(n) == <<n, 1>>

RAdd(x, y) == Rat(x[1] * y[2] + y[1] * x[2], x[2] * y[2])

RNeg(x) == <<-x[1], x[2]>>

RMul(x, y) == Rat(x[1] * y[1], x[2] * y[2])

Zero == RInt(0)

Half == Rat(1, 2)

(***************************************************************************)
(* Angles: pi * a.pi + a.rad.                                              *)
(***************************************************************************)
PiTimes(r) == [pi |-> r, rad |-> Zero]

Radians(r) == [pi |-> Zero, rad |-> r]

AAdd(x, y) == [pi |-> RAdd(x.pi, y.pi), rad |-> RAdd(x.rad, y.rad)]

ANeg(x) == [pi |-> RNeg(x.pi), rad |-> RNeg(x.rad)]

ASub(x, y) == AAdd(x, ANeg(y))

NoAngle == PiTimes(Zero)

(***************************************************************************)
(* Instructions.                                                           *)
(***************************************************************************)
Gate(g, qs) == [g |-> g, q |-> qs, a |-> NoAngle, c |-> <<>>, ops |-> <<>>]

Rot(g, ang, qb) == [g |-> g, q |-> <<qb>>, a |-> ang, c |-> <<>>, ops |-> <<>>]

H(qb) == Gate("h", <<qb>>)

X(qb) == Gate("x", <<qb>>)

Z(qb) == Gate("z", <<qb>>)

S(qb) == Gate("s", <<qb>>)

Sdg(qb) == Gate("sdg", <<qb>>)

CX(ctl, tgt) == Gate("cx", <<ctl, tgt>>)

Rx(ang, qb) == Rot("rx", ang, qb)

Ry(ang, qb) == Rot("ry", ang, qb)

Rz(ang, qb) == Rot("rz", ang, qb)

AllQubits(n) == [i \in 1..n |-> i - 1]

Barrier(n) == Gate("barrier", AllQubits(n))

Measure(qb, cb) ==
  [g |-> "measure", q |-> <<qb>>, a |-> NoAngle, c |-> <<cb>>, ops |-> <<>>]

\* QuantumCircuit.append(sub, qargs): the sub-circuit becomes one instruction
AppendCircuit(name, ops, qs) ==
  [g |-> name, q |-> qs, a |-> NoAngle, c |-> <<>>, ops |-> ops]

(***************************************************************************)
(* Sequence helpers.                                                       *)
(***************************************************************************)
Reversed(s) == [i \in 1..Len(s) |-> s[Len(s) + 1 - i]]

RECURSIVE Concat(_)
Concat(ss) == IF ss = <<>> THEN <<>> ELSE Head(ss) \o Concat(Tail(ss))

\* Python's range(start, stop, step) for step > 0, as a sequence
PyRange(start, stop, step) ==
  LET cnt == IF stop <= start THEN 0 ELSE (stop - start + step - 1) \div step
  IN  [i \in 1..cnt |-> start + (i - 1) * step]

(***************************************************************************)
(* The two-qubit coupling gates, over their own qubits 0 and 1.            *)
(***************************************************************************)
xx_gate(tau) ==
  << H(0), H(1), CX(0, 1), Rz(PiTimes(tau), 1), CX(0, 1), H(0), H(1) >>

yy_gate(tau) ==
  << S(0), S(1), H(0), H(1), CX(0, 1), Rz(PiTimes(tau), 1), CX(0, 1),
     H(0), H(1), Sdg(0), Sdg(1) >>

zz_gate(tau) ==
  << CX(0, 1), Rz(PiTimes(tau), 1), CX(0, 1) >>

xxyyzz_opt_gate(tau) ==
  LET alpha == tau
      beta == tau
      gamma == tau
  IN  << Rz(PiTimes(Half), 1),
         CX(1, 0),
         Rz(ASub(PiTimes(gamma), PiTimes(Half)), 0),
         Ry(ASub(PiTimes(Half), PiTimes(alpha)), 1),
         CX(0, 1),
         Ry(ASub(PiTimes(beta), PiTimes(Half)), 1),
         CX(1, 0),
         Rz(ANeg(PiTimes(Half)), 0) >>

xx_gate_mirror(tau) ==
  << H(0), H(1), CX(0, 1), Rz(ANeg(PiTimes(tau)), 1), CX(0, 1), H(0), H(1) >>

yy_gate_mirror(tau) ==
  << S(0), S(1), H(0), H(1), CX(0, 1), Rz(ANeg(PiTimes(tau)), 1), CX(0, 1),
     H(0), H(1), Sdg(0), Sdg(1) >>

zz_gate_mirror(tau) ==
  << CX(0, 1), Rz(ANeg(PiTimes(tau)), 1), CX(0, 1) >>

\* the forward block with every angle negated and the gate order kept
xxyyzz_opt_gate_mirror_negated_only(tau) ==
  LET alpha == tau
      beta == tau
      gamma == tau
  IN  << Rz(ANeg(PiTimes(Half)), 1),
         CX(1, 0),
         Rz(AAdd(ANeg(PiTimes(gamma)), PiTimes(Half)), 0),
         Ry(AAdd(ANeg(PiTimes(Half)), PiTimes(alpha)), 1),
         CX(0, 1),
         Ry(AAdd(ANeg(PiTimes(beta)), PiTimes(Half)), 1),
         CX(1, 0),
         Rz(PiTimes(Half), 0) >>

xxyyzz_opt_gate_mirror(tau) ==
  LET alpha == tau
      beta == tau
      gamma == tau
  IN  << Rz(PiTimes(Half), 0),
         CX(1, 0),
         Ry(AAdd(ANeg(PiTimes(beta)), PiTimes(Half)), 1),
         CX(0, 1),
         Ry(AAdd(ANeg(PiTimes(Half)), PiTimes(alpha)), 1),
         Rz(AAdd(ANeg(PiTimes(gamma)), PiTimes(Half)), 0),
         CX(1, 0),
         Rz(ANeg(PiTimes(Half)), 1) >>

\* the substitution followed by the whole mirror block, its leading Rz included
xxyyzz_opt_gate_quasi_mirror_whole(tau, pauli1, pauli2) ==
  (IF pauli1 = "x" THEN << H(0), Z(0), Rx(PiTimes(Half), 0), H(0) >>
                   ELSE << H(0), X(0), Rx(PiTimes(Half), 0), H(0) >>)
  \o (IF pauli2 = "x" THEN << X(1) >> ELSE << Z(1) >>)
  \o xxyyzz_opt_gate_mirror(tau)

xxyyzz_opt_gate_quasi_mirror(tau, pauli1, pauli2) ==
  LET alpha == tau
      beta == tau
      gamma == tau
      sub0 == IF pauli1 = "x"
                THEN << H(0), Z(0), Rx(PiTimes(Half), 0), H(0) >>
                ELSE IF pauli1 = "z"
                  THEN << H(0), X(0), Rx(PiTimes(Half), 0), H(0) >>
                  ELSE << >>
      ins1 == IF pauli2 = "x" THEN << X(1) >>
                ELSE IF pauli2 = "z" THEN << Z(1) >> ELSE << >>
  IN  sub0 \o ins1 \o
      << CX(1, 0),
         Ry(AAdd(ANeg(PiTimes(beta)), PiTimes(Half)), 1),
         CX(0, 1),
         Ry(AAdd(ANeg(PiTimes(Half)), PiTimes(alpha)), 1),
         Rz(AAdd(ANeg(PiTimes(gamma)), PiTimes(Half)), 0),
         CX(1, 0),
         Rz(ANeg(PiTimes(Half)), 1) >>

(***************************************************************************)
(* The inputs of a build.                                                  *)
(***************************************************************************)
SpinValues == 1..MaxSpins

KValues == (0 - 1)..MaxK

TValues == {0, 1}

HamiltonianValues == {"heisenberg", "tfim"}

MethodValues == {1, 2, 3}

KindValues == {"checkerboard", "neele", "ghz", "GHZ", " Checkerboard ", "unknown"}

\* per-qubit field strengths: an array too short for some chain, and a full one
FieldArrays(base) ==
  {[i \in 1..L |-> base + i] : L \in {ShortLen, MaxSpins}}

VARIABLES
  n_spins, K, t, hamiltonian, w, h_x, h_z, use_XX_YY_ZZ_gates, method,
  random_pauli_flag, init_state,    \* the arguments of HamiltonianKernel.__init__
                                    \* (n_spins, K, t, hamiltonian: also those of
                                    \* hamlib's HamiltonianSimulation)
  tau,            \* self.tau
  qc,             \* self.qc, the kernel's circuit
  QCI_, QCH_, QC2D_, QCRS_,   \* the saved sub-circuits (<<>> while None)
  pauli_list,     \* the twirl drawn by random_paulis_list
  qc_local,       \* the circuit under construction inside a create_* method
  k,              \* the Trotter-step counter of the running create_* method
  pc,             \* the position inside __init__ / overall_circuit
  err,            \* the exception that ended the build ("" while none)
  hl_qc, hl_pc,   \* one call of hamlib's initial_state(n_spins, init_state)
  data,           \* hamlib: whether process_hamiltonian_file finds the dataset
  evo,            \* hamlib create_circuit: the evolution gate (<<>> while unset)
  qc2,            \* hamlib HamiltonianSimulation: the circuit it returns
  min_qubits, max_qubits, skip_qubits,   \* the arguments of get_valid_qubits
  dataset_name_template,   \* hamlib's global of that name
  datasets,       \* the n_spins for which process_hamiltonian_file finds data
  qubit_candidates, ci,    \* get_valid_qubits: the candidates, how many are done
  qubits,         \* get_valid_qubits: the candidate of the running iteration
  valid_qubits_set, valid_qubits   \* get_valid_qubits: the set, the list returned

args == << n_spins, K, t, hamiltonian, w, h_x, h_z, use_XX_YY_ZZ_gates, method,
           random_pauli_flag, init_state >>

saved == << QCI_, QCH_, QC2D_, QCRS_ >>

sim == << data, evo, qc2 >>

gvq == << min_qubits, max_qubits, skip_qubits, dataset_name_template, datasets,
         qubit_candidates, ci, qubits, valid_qubits_set, valid_qubits >>

hl == << hl_qc, hl_pc, sim, gvq >>

vars == << args, tau, qc, saved, pauli_list, qc_local, k, pc, err, hl >>

(***************************************************************************)
(* HamiltonianKernel: the initial state, the twirl, the resultant Pauli.   *)
(***************************************************************************)
CheckerboardOps(n) ==
  LET ks == PyRange(0, n, 2) IN [i \in 1..Len(ks) |-> X(ks[i])]

GhzOps(n) ==
  << H(0) >> \o [i \in 1..(n - 1) |-> CX(i - 1, i)]

\* HamiltonianKernel.initial_state: the kind is compared as given
initial_state(n, kind) ==
  IF kind = "checkerboard" \/ kind = "neele" THEN CheckerboardOps(n)
  ELSE IF kind = "ghz" THEN GhzOps(n)
  ELSE << >>

\* str.strip().lower() on the kinds of KindValues and the names of SimNames
StripLower(kind) ==
  CASE kind = "GHZ" -> "ghz"
    [] kind = " Checkerboard " -> "checkerboard"
    [] kind = " HamLib " -> "hamlib"
    [] OTHER -> kind

\* the bit-flips put on the odd qubits instead of the even ones
hamlib_initial_state_odd(n, kind) ==
  IF StripLower(kind) = "checkerboard" \/ StripLower(kind) = "neele"
    THEN [i \in 1..(n \div 2) |-> X(2 * i - 1)]
  ELSE IF StripLower(kind) = "ghz"
    THEN << H(0) >> \o [i \in 1..(n - 1) |-> CX(i - 1, i)]
  ELSE << >>

\* hamlib's initial_state: the kind is stripped and lower-cased first
hamlib_initial_state(n, kind) ==
  IF StripLower(kind) = "checkerboard" \/ StripLower(kind) = "neele"
    THEN CheckerboardOps(n)
  ELSE IF StripLower(kind) = "ghz" THEN GhzOps(n)
  ELSE << >>

\* the outcomes of random_paulis_list: one tag per qubit
random_paulis_list(n) == [1..n -> {"x", "z"}]

\* a resultant Pauli that follows the drawn twirl: the tag's gate on each qubit
ResultantPauliOfTwirl(n) ==
  [i \in 1..n |-> IF pauli_list'[i] = "x" THEN X(i - 1) ELSE Z(i - 1)]
  \o << Barrier(n) >>

ResultantPauli(n) ==
  [i \in 1..n |-> X(i - 1)] \o << Barrier(n) >>

\* the leading twirl gates of the quasi-inverse, one per tag
TwirlGate(tag, qb) == IF tag = "x" THEN X(qb) ELSE Z(qb)

TwirlOps(tags) == [i \in 1..Len(tags) |-> TwirlGate(tags[i], i - 1)]

(***************************************************************************)
(* Coupling passes over the chain.                                         *)
(***************************************************************************)
\* for i in range(j % 2, n_spins - 1, 2), or reversed(...)
BrickPairs(j, n, rev) ==
  IF rev THEN Reversed(PyRange(j % 2, n - 1, 2)) ELSE PyRange(j % 2, n - 1, 2)

\* qc.append(block.to_instruction(), [qr[i], qr[(i + 1) % n_spins]]) for each i
CouplingPass(name, ops, idxs, n) ==
  [m \in 1..Len(idxs) |-> AppendCircuit(name, ops, <<idxs[m], (idxs[m] + 1) % n>>)]

\* for j in js: for i in (reversed) range(j % 2, n_spins - 1, 2): append block
CouplingPasses(name, ops, js, rev, n) ==
  Concat([m \in 1..Len(js) |-> CouplingPass(name, ops, BrickPairs(js[m], n, rev), n)])

\* [qc.rx/rz(coef * tau * w * arr[i], qr[i]) for i in range(n_spins)], as far as
\* arr reaches: the index past its end raises IndexError
HeisenbergField(g, coef, n, ta, ww, arr) ==
  [i \in 1..Min(n, Len(arr)) |->
     Rot(g, Radians(RMul(RMul(RMul(RInt(coef), ta), RInt(ww)), RInt(arr[i]))), i - 1)]

(***************************************************************************)
(* HeisenbergHamiltonianKernel: one iteration of each create_* loop.       *)
(***************************************************************************)
HeisenbergCoupling(n, ta, useXX) ==
  IF useXX
    THEN CouplingPasses("XX", xx_gate(ta), <<0, 1>>, FALSE, n)
         \o CouplingPasses("YY", yy_gate(ta), <<0, 1>>, FALSE, n)
         \o CouplingPasses("ZZ", zz_gate(ta), <<0, 1>>, FALSE, n)
    ELSE CouplingPasses("XXYYZZ", xxyyzz_opt_gate(ta), <<0, 1>>, FALSE, n)

\* a step that couples before it applies the local fields
HeisenbergStepCouplingFirst(n, ta, ww, hx, hz, useXX) ==
  HeisenbergCoupling(n, ta, useXX)
  \o << Barrier(n) >>
  \o HeisenbergField("rx", 2, n, ta, ww, hx)
  \o HeisenbergField("rz", 2, n, ta, ww, hz)
  \o << Barrier(n) >>

HeisenbergStep(n, ta, ww, hx, hz, useXX) ==
  HeisenbergField("rx", 2, n, ta, ww, hx)
  \o HeisenbergField("rz", 2, n, ta, ww, hz)
  \o << Barrier(n) >>
  \o HeisenbergCoupling(n, ta, useXX)
  \o << Barrier(n) >>

\* the fused mirror passes left in the forward order
HeisenbergInverseCouplingForwardOrder(n, ta, useXX) ==
  IF useXX
    THEN CouplingPasses("ZZ_dg", zz_gate_mirror(ta), <<0, 1>>, FALSE, n)
         \o CouplingPasses("YY_dg", yy_gate_mirror(ta), <<1, 0>>, TRUE, n)
         \o CouplingPasses("XX_dg", xx_gate_mirror(ta), <<0, 1>>, FALSE, n)
    ELSE CouplingPasses("XXYYZZ_dg", xxyyzz_opt_gate_mirror(ta), <<0, 1>>, FALSE, n)

HeisenbergInverseCoupling(n, ta, useXX) ==
  IF useXX
    THEN CouplingPasses("ZZ_dg", zz_gate_mirror(ta), <<0, 1>>, FALSE, n)
         \o CouplingPasses("YY_dg", yy_gate_mirror(ta), <<1, 0>>, TRUE, n)
         \o CouplingPasses("XX_dg", xx_gate_mirror(ta), <<0, 1>>, FALSE, n)
    ELSE CouplingPasses("XXYYZZ_dg", xxyyzz_opt_gate_mirror(ta), <<1, 0>>, TRUE, n)

HeisenbergInverseField(n, ta, ww, hx, hz) ==
  HeisenbergField("rz", -2, n, ta, ww, hz)
  \o HeisenbergField("rx", -2, n, ta, ww, hx)

HeisenbergInverseStep(n, ta, ww, hx, hz, useXX) ==
  HeisenbergInverseCoupling(n, ta, useXX)
  \o << Barrier(n) >>
  \o HeisenbergInverseField(n, ta, ww, hx, hz)
  \o << Barrier(n) >>

\* the explicit twirl gates put on both ends of the chain whatever its parity
BoundaryTwirlBothEnds(n, tags) ==
  << TwirlGate(tags[1], 0), TwirlGate(tags[n], n - 1) >>

\* the explicit twirl gates before the pass j = 0 of step k = 0
BoundaryTwirl(n, tags) ==
  (IF n % 2 = 1 THEN << TwirlGate(tags[1], 0) >> ELSE << >>)
  \o (IF n % 2 = 0
        THEN << TwirlGate(tags[1], 0), TwirlGate(tags[n], n - 1) >>
        ELSE << >>)

\* the quasi-mirror block used in the pass j = 0 of step 0 instead of j = 1
QuasiPassOnPassZero(j, kk, n, ta, tags) ==
  LET idxs == BrickPairs(j, n, TRUE)
  IN  (IF j = 0 /\ kk = 0 THEN BoundaryTwirl(n, tags) ELSE << >>)
      \o [m \in 1..Len(idxs) |->
            IF kk = 0 /\ j = 0
              THEN AppendCircuit("XXYYZZ~Q",
                     xxyyzz_opt_gate_quasi_mirror(ta, tags[idxs[m] + 1],
                                                  tags[((idxs[m] + 1) % n) + 1]),
                     <<idxs[m], (idxs[m] + 1) % n>>)
              ELSE AppendCircuit("XXYYZZ_dg", xxyyzz_opt_gate_mirror(ta),
                     <<idxs[m], (idxs[m] + 1) % n>>)]

\* the pass j of step kk of the fused quasi-inverse
QuasiPass(j, kk, n, ta, tags) ==
  LET idxs == BrickPairs(j, n, TRUE)
  IN  (IF j = 0 /\ kk = 0 THEN BoundaryTwirl(n, tags) ELSE << >>)
      \o [m \in 1..Len(idxs) |->
            IF kk = 0 /\ j = 1
              THEN AppendCircuit("XXYYZZ~Q",
                     xxyyzz_opt_gate_quasi_mirror(ta, tags[idxs[m] + 1],
                                                  tags[((idxs[m] + 1) % n) + 1]),
                     <<idxs[m], (idxs[m] + 1) % n>>)
              ELSE AppendCircuit("XXYYZZ_dg", xxyyzz_opt_gate_mirror(ta),
                     <<idxs[m], (idxs[m] + 1) % n>>)]

HeisenbergQuasiCoupling(kk, n, ta, useXX, tags) ==
  IF useXX
    THEN CouplingPasses("ZZ_dg", zz_gate_mirror(ta), <<0, 1>>, FALSE, n)
         \o CouplingPasses("YY_dg", yy_gate_mirror(ta), <<0, 1>>, FALSE, n)
         \o CouplingPasses("XX_dg", xx_gate_mirror(ta), <<0, 1>>, FALSE, n)
    ELSE QuasiPass(1, kk, n, ta, tags) \o QuasiPass(0, kk, n, ta, tags)

HeisenbergQuasiStep(kk, n, ta, ww, hx, hz, useXX, tags) ==
  HeisenbergQuasiCoupling(kk, n, ta, useXX, tags)
  \o << Barrier(n) >>
  \o HeisenbergInverseField(n, ta, ww, hx, hz)
  \o << Barrier(n) >>

(***************************************************************************)
(* TfimHamiltonianKernel: one iteration of each create_* loop.             *)
(***************************************************************************)
\* self.h = 0.2
h == Rat(1, 5)

TfimField(coef, n, ta) ==
  [i \in 1..n |-> Rx(Radians(RMul(RMul(RInt(coef), ta), h)), i - 1)]

TfimStep(n, ta) ==
  TfimField(2, n, ta)
  \o << Barrier(n) >>
  \o CouplingPasses("ZZ", zz_gate(ta), <<0, 1>>, FALSE, n)
  \o << Barrier(n) >>

TfimInverseStep(n, ta) ==
  CouplingPasses("ZZ_dg", zz_gate_mirror(ta), <<0, 1>>, FALSE, n)
  \o << Barrier(n) >>
  \o TfimField(-2, n, ta)
  \o << Barrier(n) >>

TfimQuasiStep(n, ta) ==
  CouplingPasses("ZZ_dg", zz_gate_mirror(ta), <<0, 1>>, FALSE, n)
  \o << Barrier(n) >>
  \o TfimField(-2, n, ta)
  \o << Barrier(n) >>

\* the state of the hamlib functions while none of them runs
SimUnused == data = FALSE /\ evo = << >> /\ qc2 = << >>

GvqUnused ==
  /\ min_qubits = 0 /\ max_qubits = 0 /\ skip_qubits = 0
  /\ dataset_name_template = ""
  /\ datasets = {}
  /\ qubit_candidates = << >> /\ ci = 0 /\ qubits = 0
  /\ valid_qubits_set = {} /\ valid_qubits = << >>

HamlibUnused == SimUnused /\ GvqUnused

(***************************************************************************)
(* The build: HamiltonianKernel(...) followed by overall_circuit().  The   *)
(* class (Heisenberg or TFIM) is the one the hamiltonian argument names.   *)
(***************************************************************************)
Init ==
  /\ n_spins \in SpinValues
  /\ K \in KValues
  /\ t \in TValues
  /\ hamiltonian \in HamiltonianValues
  /\ w = 1
  /\ h_x \in FieldArrays(0)
  /\ h_z \in FieldArrays(MaxSpins)
  /\ use_XX_YY_ZZ_gates \in BOOLEAN
  /\ method \in MethodValues
  /\ random_pauli_flag \in BOOLEAN
  /\ init_state \in KindValues
  /\ tau = Zero
  /\ qc = << >>
  /\ QCI_ = << >> /\ QCH_ = << >> /\ QC2D_ = << >> /\ QCRS_ = << >>
  /\ pauli_list = << >>
  /\ qc_local = << >>
  /\ k = 0
  /\ pc = "new"
  /\ err = ""
  /\ hl_qc = << >>
  /\ hl_pc = "idle"
  /\ HamlibUnused

\* __init__: self.tau = t / K divides by K
Construct ==
  /\ pc = "new"
  /\ IF K = 0
       THEN /\ err' = "ZeroDivisionError"
            /\ pc' = "failed"
            /\ tau' = tau
       ELSE /\ tau' = Rat(t, K)
            /\ pc' = "constructed"
            /\ err' = err
  /\ UNCHANGED << args, qc, saved, pauli_list, qc_local, k, hl >>

\* overall_circuit: i_state = self.initial_state(); self.qc.append(i_state, self.qr)
OverallInitialState ==
  /\ pc = "constructed"
  /\ QCI_' = initial_state(n_spins, init_state)
  /\ qc' = Append(qc, AppendCircuit("InitialState",
                                    initial_state(n_spins, init_state),
                                    AllQubits(n_spins)))
  /\ qc_local' = << >>
  /\ k' = 0
  /\ pc' = "create_hamiltonian"
  /\ UNCHANGED << args, tau, QCH_, QC2D_, QCRS_, pauli_list, err, hl >>

\* create_hamiltonian: one iteration of for k in range(self.K)
HamiltonianStep ==
  /\ pc = "create_hamiltonian"
  /\ k < K
  /\ IF hamiltonian = "heisenberg" /\ (Len(h_x) < n_spins \/ Len(h_z) < n_spins)
       THEN \* h_x[i] or h_z[i] past the end of the array
            /\ qc_local' = qc_local
                 \o HeisenbergField("rx", 2, n_spins, tau, w, h_x)
                 \o (IF Len(h_x) < n_spins THEN << >>
                     ELSE HeisenbergField("rz", 2, n_spins, tau, w, h_z))
            /\ err' = "IndexError"
            /\ pc' = "failed"
            /\ k' = k
       ELSE /\ qc_local' = qc_local \o
                 (IF hamiltonian = "heisenberg"
                    THEN HeisenbergStep(n_spins, tau, w, h_x, h_z, use_XX_YY_ZZ_gates)
                    ELSE TfimStep(n_spins, tau))
            /\ k' = k + 1
            /\ UNCHANGED << pc, err >>
  /\ UNCHANGED << args, tau, qc, saved, pauli_list, hl >>

HamiltonianName == IF hamiltonian = "heisenberg" THEN "Heisenberg" ELSE "TFIM"

InverseName ==
  IF hamiltonian = "heisenberg" THEN "InverseHeisenberg" ELSE "InverseTFIM"

QuasiInverseName ==
  IF hamiltonian = "heisenberg" THEN "QuasiInverseHeisenberg" ELSE "QuasiInverseTFIM"

\* a mirror for every method but 1
MirrorChoiceNotOne(m, flag) ==
  IF m # 1
    THEN IF flag THEN "quasi_begin" ELSE "create_inverse"
    ELSE "measure"

\* overall_circuit: which mirror follows the forward circuit
MirrorChoice(m, flag) ==
  IF m = 3
    THEN IF flag THEN "quasi_begin" ELSE "create_inverse"
    ELSE "measure"

\* create_hamiltonian returns; self.qc.append(circuit, self.qr); the method test
HamiltonianDone ==
  /\ pc = "create_hamiltonian"
  /\ ~(k < K)
  /\ QCH_' = qc_local
  /\ qc' = Append(qc, AppendCircuit(HamiltonianName, qc_local, AllQubits(n_spins)))
  /\ qc_local' = << >>
  /\ k' = 0
  /\ pc' = MirrorChoice(method, random_pauli_flag)
  /\ UNCHANGED << args, tau, QCI_, QC2D_, QCRS_, pauli_list, err, hl >>

\* create_inverse_hamiltonian: one iteration of for k in range(self.K)
InverseStep ==
  /\ pc = "create_inverse"
  /\ k < K
  /\ qc_local' = qc_local \o
       (IF hamiltonian = "heisenberg"
          THEN HeisenbergInverseStep(n_spins, tau, w, h_x, h_z, use_XX_YY_ZZ_gates)
          ELSE TfimInverseStep(n_spins, tau))
  /\ k' = k + 1
  /\ UNCHANGED << args, tau, qc, saved, pauli_list, pc, err, hl >>

\* create_inverse_hamiltonian returns; self.qc.append(inverse_circuit, self.qr).
\* Heisenberg assigns a local QC2D_, TFIM assigns self.QC2D_.
InverseDone ==
  /\ pc = "create_inverse"
  /\ ~(k < K)
  /\ QC2D_' = IF hamiltonian = "tfim" THEN qc_local ELSE QC2D_
  /\ qc' = Append(qc, AppendCircuit(InverseName, qc_local, AllQubits(n_spins)))
  /\ pc' = "measure"
  /\ UNCHANGED << args, tau, QCI_, QCH_, QCRS_, pauli_list, qc_local, k, err, hl >>

\* create_quasi_inverse_hamiltonian up to its loop: Heisenberg draws the twirl,
\* emits it and builds the resultant Pauli; TFIM does none of it
QuasiBegin ==
  /\ pc = "quasi_begin"
  /\ IF hamiltonian = "heisenberg"
       THEN \E tags \in random_paulis_list(n_spins) :
              /\ pauli_list' = tags
              /\ qc_local' = TwirlOps(tags) \o << Barrier(n_spins) >>
              /\ QCRS_' = ResultantPauli(n_spins)
       ELSE /\ qc_local' = << >>
            /\ UNCHANGED << pauli_list, QCRS_ >>
  /\ k' = 0
  /\ pc' = "create_quasi_inverse"
  /\ UNCHANGED << args, tau, qc, QCI_, QCH_, QC2D_, err, hl >>

\* create_quasi_inverse_hamiltonian: one iteration of for k in range(self.K)
QuasiStep ==
  /\ pc = "create_quasi_inverse"
  /\ k < K
  /\ qc_local' = qc_local \o
       (IF hamiltonian = "heisenberg"
          THEN HeisenbergQuasiStep(k, n_spins, tau, w, h_x, h_z,
                                   use_XX_YY_ZZ_gates, pauli_list)
          ELSE TfimQuasiStep(n_spins, tau))
  /\ k' = k + 1
  /\ UNCHANGED << args, tau, qc, saved, pauli_list, pc, err, hl >>

\* what create_quasi_inverse_hamiltonian returns
QuasiResult ==
  IF hamiltonian = "heisenberg"
    THEN Append(qc_local, AppendCircuit("ResultantPaulis", QCRS_, AllQubits(n_spins)))
    ELSE qc_local

\* create_quasi_inverse_hamiltonian returns; self.qc.append(quasi_inverse_circuit, ...)
QuasiDone ==
  /\ pc = "create_quasi_inverse"
  /\ ~(k < K)
  /\ qc_local' = QuasiResult
  /\ QC2D_' = QuasiResult
  /\ qc' = Append(qc, AppendCircuit(QuasiInverseName, QuasiResult, AllQubits(n_spins)))
  /\ pc' = "measure"
  /\ UNCHANGED << args, tau, QCI_, QCH_, QCRS_, pauli_list, k, err, hl >>

\* overall_circuit: the measurements, then the circuit is returned
MeasureAll ==
  /\ pc = "measure"
  /\ qc' = qc \o [i \in 1..n_spins |-> Measure(i - 1, i - 1)]
  /\ pc' = "returned"
  /\ UNCHANGED << args, tau, saved, pauli_list, qc_local, k, err, hl >>

\* hamlib: initial_state(n_spins, initial_state) on the same inputs, called once
\* the kernel's build has ended (the program is single-threaded)
HamlibInitialState ==
  /\ pc \in {"returned", "failed"}
  /\ hl_pc = "idle"
  /\ hl_qc' = hamlib_initial_state(n_spins, init_state)
  /\ hl_pc' = "done"
  /\ UNCHANGED << args, tau, qc, saved, pauli_list, qc_local, k, pc, err, sim, gvq >>

Next ==
  \/ Construct
  \/ OverallInitialState
  \/ HamiltonianStep
  \/ HamiltonianDone
  \/ InverseStep
  \/ InverseDone
  \/ QuasiBegin
  \/ QuasiStep
  \/ QuasiDone
  \/ MeasureAll
  \/ HamlibInitialState

Spec == Init /\ [][Next]_vars

\* the kernel's build alone, from the checkerboard initial state: what the
\* create_* methods emit does not depend on the initial-state kind
BuildInit == Init /\ init_state = "checkerboard"

BuildNext ==
  \/ Construct
  \/ OverallInitialState
  \/ HamiltonianStep
  \/ HamiltonianDone
  \/ InverseStep
  \/ InverseDone
  \/ QuasiBegin
  \/ QuasiStep
  \/ QuasiDone
  \/ MeasureAll

BuildSpec == BuildInit /\ [][BuildNext]_vars

(***************************************************************************)
(* hamlib: HamiltonianSimulation(n_spins, K, t, hamiltonian, ...) and the  *)
(* create_circuit it calls.  The Hamiltonian read from the dataset is not  *)
(* part of these two files: the evolution gate is kept as one opaque       *)
(* operation over all qubits whose angle is the gate's time, and the       *)
(* dataset's qubit count is n_spins.                                       *)
(***************************************************************************)
SimNames == {"hamlib", " HamLib ", "heisenberg"}

\* def create_circuit(n_spins, time = 0.2, num_trotter_steps = 5)
DefaultTime == Rat(1, 5)

DefaultTrotterSteps == 5

\* PauliEvolutionGate(operator, time = dt, label = "e^iHt")
PauliEvolutionGate(n, dt) ==
  AppendCircuit("e^iHt",
                << [g |-> "PauliEvolution", q |-> AllQubits(n), a |-> Radians(dt),
                    c |-> << >>, ops |-> << >>] >>,
                AllQubits(n))

\* evo = PauliEvolutionGate(operator, time = time / num_trotter_steps, ...)
create_circuit_evo(n, time, steps) ==
  PauliEvolutionGate(n, Rat(time[1], time[2] * steps))

\* circuit.measure_all(): a barrier, then each qubit measured into its own bit
measure_all(n) == << Barrier(n) >> \o [i \in 1..n |-> Measure(i - 1, i - 1)]

\* QuantumCircuit.decompose(): every appended sub-circuit replaced by its
\* definition on the qubits it was appended to (all of them, in order, here)
RECURSIVE decompose(_)
decompose(s) ==
  IF s = << >> THEN << >>
  ELSE (IF Head(s).ops = << >> THEN << Head(s) >> ELSE Head(s).ops)
       \o decompose(Tail(s))

SimInit ==
  /\ n_spins \in SpinValues
  /\ K \in KValues
  /\ t \in TValues
  /\ hamiltonian \in SimNames
  /\ data \in BOOLEAN
  /\ w = 1
  /\ h_x = << >> /\ h_z = << >>
  /\ use_XX_YY_ZZ_gates = FALSE
  /\ method = 1
  /\ random_pauli_flag = FALSE
  /\ init_state = "checkerboard"
  /\ tau = Zero
  /\ qc = << >>
  /\ QCI_ = << >> /\ QCH_ = << >> /\ QC2D_ = << >> /\ QCRS_ = << >>
  /\ pauli_list = << >>
  /\ qc_local = << >>
  /\ k = 0
  /\ pc = "sim_new"
  /\ err = ""
  /\ hl_qc = << >>
  /\ hl_pc = "idle"
  /\ evo = << >> /\ qc2 = << >>
  /\ GvqUnused

\* HamiltonianSimulation up to the call of create_circuit: tau = t / K, the name
SimBegin ==
  /\ pc = "sim_new"
  /\ IF K = 0
       THEN /\ err' = "ZeroDivisionError"
            /\ pc' = "sim_failed"
            /\ tau' = tau
       ELSE /\ tau' = Rat(t, K)
            /\ IF StripLower(hamiltonian) = "hamlib"
                 THEN pc' = "create_circuit" /\ err' = err
                 ELSE pc' = "sim_failed" /\ err' = "ValueError"
  /\ UNCHANGED << args, qc, saved, pauli_list, qc_local, k, hl >>

\* qc, ham_op, evo = create_circuit(n_spins): no time, no num_trotter_steps
CreateCircuit ==
  /\ pc = "create_circuit"
  /\ IF data
       THEN /\ evo' = create_circuit_evo(n_spins, DefaultTime, DefaultTrotterSteps)
            /\ QCI_' = hamlib_initial_state(n_spins, "checkerboard")
            /\ qc' = << AppendCircuit("Neele",
                                      hamlib_initial_state(n_spins, "checkerboard"),
                                      AllQubits(n_spins)),
                        Barrier(n_spins) >>
            /\ k' = 0
            /\ pc' = "trotter"
            /\ err' = err
       ELSE \* return None, None, None; then None.decompose()
            /\ pc' = "sim_failed"
            /\ err' = "AttributeError"
            /\ UNCHANGED << evo, QCI_, qc, k >>
  /\ UNCHANGED << args, tau, QCH_, QC2D_, QCRS_, pauli_list, qc_local,
                 hl_qc, hl_pc, data, qc2, gvq >>

\* create_circuit: one iteration of for _ in range(num_trotter_steps)
TrotterStep ==
  /\ pc = "trotter"
  /\ k < DefaultTrotterSteps
  /\ qc' = Append(qc, evo)
  /\ k' = k + 1
  /\ UNCHANGED << args, tau, saved, pauli_list, qc_local, pc, err, hl >>

\* create_circuit: the barrier, measure_all(), return
TrotterDone ==
  /\ pc = "trotter"
  /\ ~(k < DefaultTrotterSteps)
  /\ qc' = qc \o << Barrier(n_spins) >> \o measure_all(n_spins)
  /\ pc' = "decompose"
  /\ UNCHANGED << args, tau, saved, pauli_list, qc_local, k, err, hl >>

\* HamiltonianSimulation: qc2 = qc.decompose().decompose(); return qc2
SimReturn ==
  /\ pc = "decompose"
  /\ qc2' = decompose(decompose(qc))
  /\ pc' = "sim_returned"
  /\ UNCHANGED << args, tau, qc, saved, pauli_list, qc_local, k, err,
                 hl_qc, hl_pc, data, evo, gvq >>

SimNext ==
  \/ SimBegin
  \/ CreateCircuit
  \/ TrotterStep
  \/ TrotterDone
  \/ SimReturn

SimSpec == SimInit /\ [][SimNext]_vars

(***************************************************************************)
(* hamlib: get_valid_qubits(min_qubits, max_qubits, skip_qubits).  Which   *)
(* datasets the file holds is an input: process_hamiltonian_file returns   *)
(* data for the name made from n_spins exactly when n_spins \in datasets.  *)
(***************************************************************************)
TemplateValues == {"ham-{n_qubits}", "ham-{n_qubits/2}"}

\* "{n_qubits/2}" in dataset_name_template
HasHalfPlaceholder(tpl) == tpl = "ham-{n_qubits/2}"

\* list(set) followed by list.sort()
RECURSIVE SortedList(_)
SortedList(ss) ==
  IF ss = {} THEN << >>
  ELSE LET m == CHOOSE x \in ss : \A y \in ss : x <= y
       IN  << m >> \o SortedList(ss \ {m})

\* n_spins >= (qubits + skip_qubits) // 2 if "{n_qubits/2}" in template
\*         else (qubits + skip_qubits)
\* Python reads it as (A if C else B): without the placeholder the test is the
\* truth value of the number qubits + skip_qubits
GiveUp(n, q, skip, tpl) ==
  IF HasHalfPlaceholder(tpl) THEN n >= (q + skip) \div 2 ELSE (q + skip) # 0

GvInit ==
  /\ min_qubits \in 1..MaxQubits
  /\ max_qubits \in 1..MaxQubits
  /\ skip_qubits \in 0..MaxQubits
  /\ dataset_name_template \in TemplateValues
  /\ datasets \in SUBSET (1..MaxQubits)
  /\ qubit_candidates = << >> /\ ci = 0 /\ qubits = 0
  /\ valid_qubits_set = {} /\ valid_qubits = << >>
  /\ n_spins = 0
  /\ K = 1 /\ t = 0 /\ hamiltonian = "hamlib"
  /\ w = 1
  /\ h_x = << >> /\ h_z = << >>
  /\ use_XX_YY_ZZ_gates = FALSE
  /\ method = 1
  /\ random_pauli_flag = FALSE
  /\ init_state = "checkerboard"
  /\ tau = Zero
  /\ qc = << >>
  /\ QCI_ = << >> /\ QCH_ = << >> /\ QC2D_ = << >> /\ QCRS_ = << >>
  /\ pauli_list = << >>
  /\ qc_local = << >>
  /\ k = 0
  /\ pc = "gv_new"
  /\ err = ""
  /\ hl_qc = << >>
  /\ hl_pc = "idle"
  /\ SimUnused

GvFrame == << K, t, hamiltonian, w, h_x, h_z, use_XX_YY_ZZ_gates, method,
             random_pauli_flag, init_state, tau, qc, saved, pauli_list, qc_local,
             k, hl_qc, hl_pc, sim, min_qubits, max_qubits, skip_qubits,
             dataset_name_template, datasets >>

\* qubit_candidates = list(range(min_qubits, max_qubits + 1, skip_qubits));
\* range() raises ValueError for a step of 0
GvCandidates ==
  /\ pc = "gv_new"
  /\ IF skip_qubits = 0
       THEN /\ err' = "ValueError"
            /\ pc' = "gv_failed"
            /\ UNCHANGED qubit_candidates
       ELSE /\ qubit_candidates' = PyRange(min_qubits, max_qubits + 1, skip_qubits)
            /\ pc' = "gv_for"
            /\ err' = err
  /\ UNCHANGED << GvFrame, n_spins, ci, qubits, valid_qubits_set, valid_qubits >>

\* for qubits in qubit_candidates: the next candidate and its first n_spins
GvNextCandidate ==
  /\ pc = "gv_for"
  /\ ci < Len(qubit_candidates)
  /\ ci' = ci + 1
  /\ qubits' = qubit_candidates[ci + 1]
  /\ n_spins' = IF HasHalfPlaceholder(dataset_name_template)
                  THEN qubit_candidates[ci + 1] \div 2
                  ELSE qubit_candidates[ci + 1]
  /\ pc' = "gv_while"
  /\ UNCHANGED << GvFrame, err, qubit_candidates, valid_qubits_set, valid_qubits >>

\* while n_spins <= max_qubits: one test of the condition and one body
GvProbe ==
  /\ pc = "gv_while"
  /\ IF ~(n_spins <= max_qubits)
       THEN /\ pc' = "gv_for"
            /\ UNCHANGED << n_spins, valid_qubits_set >>
       ELSE IF n_spins \in datasets
         THEN /\ valid_qubits_set' = valid_qubits_set \cup
                   {IF HasHalfPlaceholder(dataset_name_template)
                      THEN n_spins * 2 ELSE qubits}
              /\ pc' = "gv_for"
              /\ UNCHANGED n_spins
         ELSE /\ n_spins' = n_spins + 1
              /\ pc' = IF GiveUp(n_spins + 1, qubits, skip_qubits,
                                 dataset_name_template)
                         THEN "gv_for" ELSE "gv_while"
              /\ UNCHANGED valid_qubits_set
  /\ UNCHANGED << GvFrame, err, qubit_candidates, ci, qubits, valid_qubits >>

\* valid_qubits = list(valid_qubits_set); valid_qubits.sort(); return
GvReturn ==
  /\ pc = "gv_for"
  /\ ~(ci < Len(qubit_candidates))
  /\ valid_qubits' = SortedList(valid_qubits_set)
  /\ pc' = "gv_returned"
  /\ UNCHANGED << GvFrame, err, n_spins, qubit_candidates, ci, qubits,
                 valid_qubits_set >>

GvNext ==
  \/ GvCandidates
  \/ GvNextCandidate
  \/ GvProbe
  \/ GvReturn

GvSpec == GvInit /\ [][GvNext]_vars

\* every step the function can take is taken: it runs alone
GvFairSpec == GvSpec /\ WF_vars(GvNext)

(***************************************************************************)
(* Cancellation of a gate sequence.  A gate cancels against the nearest    *)
(* earlier gate it does not commute with, when that gate is its adjoint;   *)
(* gates on disjoint qubits commute.  A sequence that cancels to << >> is  *)
(* the identity.                                                           *)
(***************************************************************************)
SelfAdjointGates == {"h", "x", "z", "cx"}

RotationGates == {"rx", "ry", "rz"}

Shares(a, b) == \E i \in 1..Len(a.q), j \in 1..Len(b.q) : a.q[i] = b.q[j]

GateAdjoint(a, b) ==
  /\ a.q = b.q
  /\ \/ a.g = b.g /\ a.g \in SelfAdjointGates
     \/ a.g = b.g /\ a.g \in RotationGates /\ b.a = ANeg(a.a)
     \/ a.g = "s" /\ b.g = "sdg"
     \/ a.g = "sdg" /\ b.g = "s"

RemoveAt(s, m) == SubSeq(s, 1, m - 1) \o SubSeq(s, m + 1, Len(s))

RECURSIVE PushGate(_, _, _)
PushGate(stack, g, m) ==
  IF m = 0 THEN Append(stack, g)
  ELSE IF GateAdjoint(stack[m], g) THEN RemoveAt(stack, m)
  ELSE IF ~Shares(stack[m], g) THEN PushGate(stack, g, m - 1)
  ELSE Append(stack, g)

RECURSIVE CancelFrom(_, _)
CancelFrom(stack, rest) ==
  IF rest = << >> THEN stack
  ELSE CancelFrom(PushGate(stack, Head(rest), Len(stack)), Tail(rest))

CancelGates(s) == CancelFrom(<< >>, s)

\* the same over the instructions of a kernel circuit: two coupling blocks are
\* adjoint when their definitions cancel, and blocks of one axis commute
Axis(name) ==
  CASE name \in {"XX", "XX_dg"} -> "x"
    [] name \in {"YY", "YY_dg"} -> "y"
    [] name \in {"ZZ", "ZZ_dg"} -> "z"
    [] OTHER -> ""

OpAdjoint(a, b) ==
  /\ a.q = b.q
  /\ IF a.ops # << >> /\ b.ops # << >>
       THEN CancelGates(a.ops \o b.ops) = << >>
       ELSE a.ops = << >> /\ b.ops = << >> /\ GateAdjoint(a, b)

OpCommute(a, b) ==
  \/ ~Shares(a, b)
  \/ Axis(a.g) # "" /\ Axis(a.g) = Axis(b.g)

RECURSIVE PushOp(_, _, _)
PushOp(stack, g, m) ==
  IF m = 0 THEN Append(stack, g)
  ELSE IF OpAdjoint(stack[m], g) THEN RemoveAt(stack, m)
  ELSE IF OpCommute(stack[m], g) THEN PushOp(stack, g, m - 1)
  ELSE Append(stack, g)

RECURSIVE CancelOpsFrom(_, _)
CancelOpsFrom(stack, rest) ==
  IF rest = << >> THEN stack
  ELSE CancelOpsFrom(PushOp(stack, Head(rest), Len(stack)), Tail(rest))

\* barriers are the identity
NoBarriers(s) == SelectSeq(s, LAMBDA op : op.g # "barrier")

CancelOps(s) == CancelOpsFrom(<< >>, NoBarriers(s))

(***************************************************************************)
(* C1.  The forward circuit followed by the exact inverse cancels to the   *)
(* identity: for n_spins >= 2, K >= 1, both models and both coupling       *)
(* modes, every instruction of create_inverse_hamiltonian meets its        *)
(* adjoint in create_hamiltonian, moving only past instructions it         *)
(* commutes with (disjoint qubits, barriers, coupling blocks of one axis). *)
(***************************************************************************)
ExactMirrorBuilt ==
  /\ pc = "returned"
  /\ method = 3
  /\ ~random_pauli_flag

\* C1: create_hamiltonian followed by create_inverse_hamiltonian cancels to the
\* empty sequence, each instruction against its adjoint.
InverseCancelsForward ==
  (ExactMirrorBuilt /\ n_spins >= 2 /\ K >= 1)
    => CancelOps(qc[2].ops \o qc[3].ops) = << >>

InverseCancelsForwardWitness ==
  /\ ExactMirrorBuilt
  /\ hamiltonian = "heisenberg"
  /\ ~use_XX_YY_ZZ_gates
  /\ n_spins >= 3
  /\ K >= 2
  /\ tau # Zero
  /\ Len(qc[3].ops) > n_spins

(***************************************************************************)
(* C2.  The chain is periodic: in every Trotter step of the forward        *)
(* circuit some coupling block acts on the wraparound pair of qubits       *)
(* n_spins-1 and 0 (either operand order is accepted here).                *)
(***************************************************************************)
IsCoupling(op) == op.ops # << >> /\ Len(op.q) = 2

\* C2: once a Trotter step is built, a coupling block acts on qubits n_spins-1
\* and 0.
WraparoundCoupled ==
  (pc = "create_hamiltonian" /\ k >= 1 /\ n_spins >= 2)
    => \E i \in 1..Len(qc_local) :
         /\ IsCoupling(qc_local[i])
         /\ qc_local[i].q \in {<<n_spins - 1, 0>>, <<0, n_spins - 1>>}

(***************************************************************************)
(* C3.  The mirror gates against the forward gates.                        *)
(***************************************************************************)
\* self.tau = t / K has just been set, or a mirror built from it is complete
TauSet == pc \in {"constructed", "measure"}

NegateAngle(g) == IF g.g \in RotationGates THEN [g EXCEPT !.a = ANeg(@)] ELSE g

NegatedAngles(s) == [i \in 1..Len(s) |-> NegateAngle(s[i])]

NegatedReversal(s) == NegatedAngles(Reversed(s))

\* C3 as stated: each of the four mirror gate lists is exactly the forward
\* gate list reversed, with every rotation angle negated and every CNOT kept.
MirrorsAreNegatedReversals ==
  TauSet =>
    /\ xxyyzz_opt_gate_mirror(tau) = NegatedReversal(xxyyzz_opt_gate(tau))
    /\ xx_gate_mirror(tau) = NegatedReversal(xx_gate(tau))
    /\ yy_gate_mirror(tau) = NegatedReversal(yy_gate(tau))
    /\ zz_gate_mirror(tau) = NegatedReversal(zz_gate(tau))

\* C3 as amended: the fused mirror is exactly the negated reversal of the fused
\* gate; the XX, YY and ZZ mirrors are the forward lists in the same order with
\* the angle negated; and each of the four gates followed by its mirror cancels
\* gate by gate to the identity (gates on different qubits change places, and
\* S meets its adjoint S-dagger).
MirrorsAreAdjoints ==
  TauSet =>
    /\ xxyyzz_opt_gate_mirror(tau) = NegatedReversal(xxyyzz_opt_gate(tau))
    /\ xx_gate_mirror(tau) = NegatedAngles(xx_gate(tau))
    /\ yy_gate_mirror(tau) = NegatedAngles(yy_gate(tau))
    /\ zz_gate_mirror(tau) = NegatedAngles(zz_gate(tau))
    /\ CancelGates(xxyyzz_opt_gate(tau) \o xxyyzz_opt_gate_mirror(tau)) = << >>
    /\ CancelGates(xx_gate(tau) \o xx_gate_mirror(tau)) = << >>
    /\ CancelGates(yy_gate(tau) \o yy_gate_mirror(tau)) = << >>
    /\ CancelGates(zz_gate(tau) \o zz_gate_mirror(tau)) = << >>

\* a fused block and its mirror have both been emitted, for tau = 1/2
MirrorsAreAdjointsWitness ==
  /\ pc = "measure"
  /\ tau = Half
  /\ \E i \in 1..Len(qc[2].ops) : qc[2].ops[i].ops = xxyyzz_opt_gate(tau)
  /\ \E i \in 1..Len(qc_local) : qc_local[i].ops = xxyyzz_opt_gate_mirror(tau)

(***************************************************************************)
(* C4.  The quasi-mirror block.                                            *)
(***************************************************************************)
Tags == {"x", "z"}

\* self.tau has just been set, or the quasi-inverse is being built from it
QuasiTauSet == pc \in {"constructed", "create_quasi_inverse"}

\* on qubit 0: H, Z, Rx(pi/2), H for tag x and H, X, Rx(pi/2), H for tag z
QuasiSubstitution(pauli1) ==
  << H(0), IF pauli1 = "x" THEN Z(0) ELSE X(0), Rx(PiTimes(Half), 0), H(0) >>

\* on qubit 1: the bare Pauli of the tag
QuasiInsertion(pauli2) == << IF pauli2 = "x" THEN X(1) ELSE Z(1) >>

\* C4 as stated: substitution, insertion, then the complete mirror block.
QuasiMirrorKeepsWholeMirror ==
  QuasiTauSet =>
    \A p1 \in Tags, p2 \in Tags :
      xxyyzz_opt_gate_quasi_mirror(tau, p1, p2)
        = QuasiSubstitution(p1) \o QuasiInsertion(p2) \o xxyyzz_opt_gate_mirror(tau)

\* C4 as amended: substitution, insertion, then the mirror block without its
\* first gate, the Rz(pi/2) on qubit 0 (the other seven gates unchanged).
QuasiMirrorDropsLeadingRz ==
  QuasiTauSet =>
    \A p1 \in Tags, p2 \in Tags :
      /\ xxyyzz_opt_gate_quasi_mirror(tau, p1, p2)
           = QuasiSubstitution(p1) \o QuasiInsertion(p2)
             \o Tail(xxyyzz_opt_gate_mirror(tau))
      /\ Head(xxyyzz_opt_gate_mirror(tau)) = Rz(PiTimes(Half), 0)

\* a quasi-mirror block for the tags (x, z) has been emitted on qubits 1 and 2
QuasiMirrorWitness ==
  /\ pc = "create_quasi_inverse"
  /\ k >= 1
  /\ tau # Zero
  /\ \E i \in 1..Len(qc_local) :
       /\ qc_local[i].g = "XXYYZZ~Q"
       /\ qc_local[i].q = <<1, 2>>
       /\ qc_local[i].ops = xxyyzz_opt_gate_quasi_mirror(tau, "x", "z")

(***************************************************************************)
(* C5.  Every quasi-inverse build, Heisenberg or TFIM, for K >= 1: a twirl *)
(* of n_spins tags is drawn, its gates lead the circuit, the K reversed    *)
(* layers follow, and the ResultantState operations come last.             *)
(***************************************************************************)
QuasiMirrorBuilt ==
  /\ pc \in {"measure", "returned"}
  /\ method = 3
  /\ random_pauli_flag

XOnEveryQubit(n) == [i \in 1..n |-> X(i - 1)]

QuasiPhasesInOrder(m) ==
  /\ Len(pauli_list) = n_spins
  /\ \A i \in 1..n_spins : pauli_list[i] \in Tags
  /\ Len(m) >= n_spins + 2
  /\ \A i \in 1..n_spins :
       m[i] = (IF pauli_list[i] = "x" THEN X(i - 1) ELSE Z(i - 1))
  /\ m[n_spins + 1].g = "barrier"
  /\ m[Len(m)].g = "ResultantPaulis"
  /\ m[Len(m)].ops = XOnEveryQubit(n_spins) \o << Barrier(n_spins) >>
  /\ \A i \in (n_spins + 2)..(Len(m) - 1) : m[i].g # "ResultantPaulis"
  \* K layers, each closed by two barriers
  /\ Cardinality({i \in (n_spins + 2)..(Len(m) - 1) : m[i].g = "barrier"}) = 2 * K

\* C5: the mirror of every quasi-inverse build with K >= 1 has the leading twirl
\* gates, K layers and the ResultantState last.
QuasiBuildHasAllPhases ==
  (QuasiMirrorBuilt /\ K >= 1) => QuasiPhasesInOrder(qc[3].ops)

\* not a claim: the same for the Heisenberg model alone
HeisenbergQuasiBuildHasAllPhases ==
  (QuasiMirrorBuilt /\ K >= 1 /\ hamiltonian = "heisenberg")
    => QuasiPhasesInOrder(qc[3].ops)

(***************************************************************************)
(* C6.  The resultant Pauli of the Heisenberg quasi-inverse is one X on    *)
(* each qubit 0..n_spins-1 and a barrier, whatever twirl was drawn: it is  *)
(* what the build saves, and what it appends last.                         *)
(***************************************************************************)
TwirlDrawn ==
  /\ hamiltonian = "heisenberg"
  /\ pc = "create_quasi_inverse" \/ QuasiMirrorBuilt

\* C6: the resultant Pauli saved and appended is X on every qubit then a
\* barrier, for every twirl.
ResultantIgnoresTwirl ==
  /\ TwirlDrawn => QCRS_ = XOnEveryQubit(n_spins) \o << Barrier(n_spins) >>
  /\ (QuasiMirrorBuilt /\ hamiltonian = "heisenberg") =>
       qc[3].ops[Len(qc[3].ops)] =
         AppendCircuit("ResultantPaulis",
                       XOnEveryQubit(n_spins) \o << Barrier(n_spins) >>,
                       AllQubits(n_spins))

ResultantIgnoresTwirlWitness ==
  /\ QuasiMirrorBuilt
  /\ hamiltonian = "heisenberg"
  /\ n_spins = 3
  /\ K >= 1
  /\ pauli_list = << "z", "x", "z" >>
  /\ qc[3].ops[Len(qc[3].ops)].g = "ResultantPaulis"

(***************************************************************************)
(* C7.  With h_x or h_z shorter than n_spins the build of either model     *)
(* fails, and when it fails on the array index no gate has been appended   *)
(* to any circuit of the kernel.                                           *)
(***************************************************************************)
ShortFieldArrays == Len(h_x) < n_spins \/ Len(h_z) < n_spins

\* the gates of a kernel circuit, its sub-circuits opened and barriers left out
PrimitiveGates == SelfAdjointGates \cup RotationGates \cup {"s", "sdg", "measure"}

RECURSIVE GatesOf(_)
GatesOf(s) ==
  IF s = << >> THEN << >>
  ELSE (IF Head(s).g \in PrimitiveGates THEN << Head(s) >> ELSE GatesOf(Head(s).ops))
       \o GatesOf(Tail(s))

\* C7: a build with a short h_x or h_z never returns, and its IndexError comes
\* while no circuit of the kernel holds a gate.
ShortArraysFailBeforeAnyGate ==
  (ShortFieldArrays /\ K >= 1) =>
    /\ pc # "returned"
    /\ err = "IndexError" => (GatesOf(qc) = << >> /\ GatesOf(qc_local) = << >>)

\* not a claim: the two halves of C7, one at a time
ShortArraysNeverReturn == (ShortFieldArrays /\ K >= 1) => pc # "returned"

IndexErrorLeavesNoGate ==
  err = "IndexError" => (GatesOf(qc) = << >> /\ GatesOf(qc_local) = << >>)

(***************************************************************************)
(* C8.  A build with K <= 0 is rejected in the constructor: it fails       *)
(* there, and never gets past it.                                          *)
(***************************************************************************)
\* C8: with K <= 0 the constructor fails and no circuit is ever built.
NonPositiveKRejected ==
  (K <= 0 /\ pc # "new") => (pc = "failed" /\ qc = << >>)

(***************************************************************************)
(* C9.  The initial state, in the kernel method and in the hamlib          *)
(* function.                                                               *)
(***************************************************************************)
\* checkerboard / neele: X on the even qubits; ghz: H on qubit 0, then
\* CNOT(k-1 -> k) for k = 1..n-1; any other kind: nothing
ExpectedInitialState(n, kind) ==
  IF kind \in {"checkerboard", "neele"}
    THEN [i \in 1..((n + 1) \div 2) |-> Gate("x", << 2 * (i - 1) >>)]
  ELSE IF kind = "ghz"
    THEN [i \in 1..n |-> IF i = 1 THEN Gate("h", << 0 >>)
                                  ELSE Gate("cx", << i - 2, i - 1 >>)]
  ELSE << >>

KernelInitialStateDone == pc \notin {"new", "constructed"} /\ err # "ZeroDivisionError"

MirrorParts == IF method = 3 THEN 1 ELSE 0

\* C10: the parts of the returned circuit, in order, and its measurements last.
OverallCircuitOrder ==
  pc = "returned" =>
    /\ Len(qc) = 2 + MirrorParts + n_spins
    /\ qc[1] = AppendCircuit("InitialState", QCI_, AllQubits(n_spins))
    /\ qc[2] = AppendCircuit(HamiltonianName, QCH_, AllQubits(n_spins))
    /\ method = 3 =>
         /\ qc[3].g = (IF random_pauli_flag THEN QuasiInverseName ELSE InverseName)
         /\ qc[3].q = AllQubits(n_spins)
         /\ random_pauli_flag => qc[3].ops = QC2D_
         /\ ~random_pauli_flag =>
              \A i \in 1..Len(qc[3].ops) :
                qc[3].ops[i].g \notin {"x", "z", "XXYYZZ~Q", "ResultantPaulis"}
    /\ \A i \in 1..n_spins :
         qc[2 + MirrorParts + i] = Measure(i - 1, i - 1)
    /\ \A i \in 1..(2 + MirrorParts) : qc[i].g # "measure"

OverallCircuitOrderWitness ==
  /\ pc = "returned"
  /\ method = 3
  /\ random_pauli_flag
  /\ n_spins >= 2
  /\ K >= 1
  /\ Len(qc) = 3 + n_spins

(***************************************************************************)
(* C11.  hamlib's HamiltonianSimulation honours K and t: the circuit it    *)
(* returns holds exactly K applications of the evolution gate, each built  *)
(* for the duration t / K.                                                 *)
(***************************************************************************)
Evolutions(s) == SelectSeq(s, LAMBDA op : op.g = "PauliEvolution")

\* C11: the returned circuit has K evolution gates, each of duration t / K.
HamlibHonoursKAndT ==
  (pc = "sim_returned" /\ K >= 1) =>
    /\ Len(Evolutions(qc2)) = K
    /\ \A i \in 1..Len(Evolutions(qc2)) :
         Evolutions(qc2)[i].a = Radians(Rat(t, K))

\* not a claim: what the returned circuit holds instead, whatever K and t are
HamlibUsesDefaults ==
  pc = "sim_returned" =>
    /\ Len(Evolutions(qc2)) = DefaultTrotterSteps
    /\ \A i \in 1..Len(Evolutions(qc2)) :
         Evolutions(qc2)[i].a = Radians(Rat(1, 25))

(***************************************************************************)
(* C12.  get_valid_qubits returns a strictly increasing list of numbers q  *)
(* with min_qubits <= q <= max_qubits, for every pattern of datasets and   *)
(* both forms of the dataset-name template; and it terminates.             *)
(***************************************************************************)
StrictlyIncreasing(s) == \A i \in 1..(Len(s) - 1) : s[i] < s[i + 1]

\* C12: the list returned is strictly increasing and lies in
\* [min_qubits, max_qubits].
ValidQubitsSortedInRange ==
  pc = "gv_returned" =>
    /\ StrictlyIncreasing(valid_qubits)
    /\ \A i \in 1..Len(valid_qubits) :
         min_qubits <= valid_qubits[i] /\ valid_qubits[i] <= max_qubits

\* not claims: the parts of C12 one at a time
ValidQubitsSorted == pc = "gv_returned" => StrictlyIncreasing(valid_qubits)

ValidQubitsInRangeWithoutHalf ==
  (pc = "gv_returned" /\ ~HasHalfPlaceholder(dataset_name_template)) =>
    \A i \in 1..Len(valid_qubits) :
      min_qubits <= valid_qubits[i] /\ valid_qubits[i] <= max_qubits

GetValidQubitsTerminates == <>(pc \in {"gv_returned", "gv_failed"})

(***************************************************************************)
(* C13.  The exact inverse, step by step: every coupling layer in reverse  *)
(* pass order (the pairs of pass 1 before those of pass 0, each pass in    *)
(* decreasing index) and made of mirror blocks; a barrier; the local       *)
(* fields with negated angles, Rz on every qubit before Rx on every qubit  *)
(* for Heisenberg; a barrier.                                              *)
(***************************************************************************)
ExactInverseBuilt ==
  /\ pc = "measure"
  /\ method = 3
  /\ ~random_pauli_flag
  /\ K >= 1

\* the first qubits of the pairs of one layer, pass 1 then pass 0, decreasing
ReversePassOrder(n) ==
  Reversed(PyRange(1, n - 1, 2)) \o Reversed(PyRange(0, n - 1, 2))

\* the number of coupling layers of a step: one per axis, or one
LayersOf(ham, useXX) == IF ham = "heisenberg" /\ useXX THEN 3 ELSE 1

FieldsOf(ham, n) == IF ham = "heisenberg" THEN 2 * n ELSE n

InverseStepLen(ham, useXX, n) ==
  LayersOf(ham, useXX) * (n - 1) + 1 + FieldsOf(ham, n) + 1

MirrorForms(ta) ==
  { xx_gate_mirror(ta), yy_gate_mirror(ta), zz_gate_mirror(ta),
    xxyyzz_opt_gate_mirror(ta) }

\* -2 * tau * c as an angle in radians
MinusTwoTauTimes(ta, c) == Radians(RNeg(RMul(RMul(RInt(2), ta), c)))

\* the layers of the step that starts after position base of m
LayersInReversePassOrder(m, base, n, layers, ta) ==
  \A l \in 0..(layers - 1) : \A j \in 1..(n - 1) :
    LET op == m[base + l * (n - 1) + j]
        i == ReversePassOrder(n)[j]
    IN  /\ op.q = << i, i + 1 >>
        /\ op.ops \in MirrorForms(ta)

\* barrier, negated fields, barrier, from position base + 1 of m
NegatedFieldsAfterBarrier(m, base, n, ham, ta) ==
  /\ m[base + 1] = Barrier(n)
  /\ IF ham = "heisenberg"
       THEN \A i \in 1..n :
              /\ m[base + 1 + i] = Rz(MinusTwoTauTimes(ta, RInt(w * h_z[i])), i - 1)
              /\ m[base + 1 + n + i]
                   = Rx(MinusTwoTauTimes(ta, RInt(w * h_x[i])), i - 1)
       ELSE \A i \in 1..n :
              m[base + 1 + i] = Rx(MinusTwoTauTimes(ta, Rat(1, 5)), i - 1)
  /\ m[base + 1 + FieldsOf(ham, n) + 1] = Barrier(n)

InverseStepsAsClaimed(m, ham, useXX, n, ta, steps) ==
  /\ Len(m) = steps * InverseStepLen(ham, useXX, n)
  /\ \A s \in 0..(steps - 1) :
       LET base == s * InverseStepLen(ham, useXX, n)
       IN  /\ LayersInReversePassOrder(m, base, n, LayersOf(ham, useXX), ta)
           /\ NegatedFieldsAfterBarrier(m, base + LayersOf(ham, useXX) * (n - 1),
                                        n, ham, ta)

\* C13: every step of create_inverse_hamiltonian, for both models and both
\* coupling modes, has its layers in reverse pass order, then the negated fields.
InverseReversePassOrder ==
  ExactInverseBuilt =>
    InverseStepsAsClaimed(qc_local, hamiltonian, use_XX_YY_ZZ_gates, n_spins, tau, K)

\* not a claim: the same for the fused Heisenberg inverse alone
FusedInverseReversePassOrder ==
  (ExactInverseBuilt /\ hamiltonian = "heisenberg" /\ ~use_XX_YY_ZZ_gates) =>
    InverseStepsAsClaimed(qc_local, hamiltonian, use_XX_YY_ZZ_gates, n_spins, tau, K)

\* not a claim: what remains true of every inverse (the layers apart)
InverseFieldsNegated ==
  ExactInverseBuilt =>
    \A s \in 0..(K - 1) :
      NegatedFieldsAfterBarrier(
        qc_local,
        s * InverseStepLen(hamiltonian, use_XX_YY_ZZ_gates, n_spins)
          + LayersOf(hamiltonian, use_XX_YY_ZZ_gates) * (n_spins - 1),
        n_spins, hamiltonian, tau)

(***************************************************************************)
(* C14.  The Heisenberg quasi-inverse, K >= 1, n_spins >= 2, either        *)
(* coupling mode: the blocks of the first coupling pass of step 0 (pass 1, *)
(* in decreasing index) are quasi-mirror blocks keyed by the tags of their *)
(* two qubits, and every other coupling block of the build is a plain      *)
(* mirror block.                                                           *)
(***************************************************************************)
HeisenbergQuasiBuilt ==
  /\ pc = "measure"
  /\ method = 3
  /\ random_pauli_flag
  /\ hamiltonian = "heisenberg"
  /\ K >= 1

CouplingBlocks(m) ==
  SelectSeq(m, LAMBDA op : IsCoupling(op) /\ op.g # "ResultantPaulis")

\* the first qubits of the pairs of the pass emitted first
FirstPass(n) == Reversed(PyRange(1, n - 1, 2))

QuasiOnlyInFirstPass(m, n, ta, tags) ==
  LET blocks == CouplingBlocks(m)
      first == FirstPass(n)
  IN  /\ Len(blocks) >= Len(first)
      /\ \A idx \in 1..Len(blocks) :
           IF idx <= Len(first)
             THEN blocks[idx] =
                    AppendCircuit("XXYYZZ~Q",
                      xxyyzz_opt_gate_quasi_mirror(ta, tags[first[idx] + 1],
                                                   tags[first[idx] + 2]),
                      << first[idx], first[idx] + 1 >>)
             ELSE /\ blocks[idx].g # "XXYYZZ~Q"
                  /\ blocks[idx].ops \in MirrorForms(ta)

\* C14: the quasi-mirror block is used for the pairs of the first pass of step 0
\* and for no other block, whichever coupling mode is selected.
QuasiMirrorOnlyFirstPass ==
  (HeisenbergQuasiBuilt /\ n_spins >= 2) =>
    QuasiOnlyInFirstPass(qc_local, n_spins, tau, pauli_list)

\* not a claim: the same for the fused mode alone
FusedQuasiMirrorOnlyFirstPass ==
  (HeisenbergQuasiBuilt /\ n_spins >= 2 /\ ~use_XX_YY_ZZ_gates) =>
    QuasiOnlyInFirstPass(qc_local, n_spins, tau, pauli_list)

\* not a claim: the separate-axis mode emits the twirl and no quasi-mirror block
SeparateAxisHasNoQuasiMirror ==
  (HeisenbergQuasiBuilt /\ use_XX_YY_ZZ_gates) =>
    /\ SubSeq(qc_local, 1, n_spins) = TwirlOps(pauli_list)
    /\ \A i \in 1..Len(qc_local) : qc_local[i].g # "XXYYZZ~Q"

(***************************************************************************)
(* C15.  The fused Heisenberg quasi-inverse, K >= 1: apart from the        *)
(* n_spins leading twirl gates and the gates inside quasi-mirror blocks,   *)
(* the build holds one explicit twirl gate when n_spins is odd (the gate   *)
(* of qubit 0's tag, on qubit 0) and two when n_spins is even (on qubit 0  *)
(* and on qubit n_spins-1, each the gate of its own tag), in the whole     *)
(* build and not per step.                                                 *)
(***************************************************************************)
FusedQuasiBuilt == HeisenbergQuasiBuilt /\ ~use_XX_YY_ZZ_gates

\* the explicit X and Z gates of m after its n leading twirl gates
ExplicitTwirlGates(m, n) ==
  SelectSeq(SubSeq(m, n + 1, Len(m)), LAMBDA op : op.g \in {"x", "z"})

\* C15: one boundary twirl gate for an odd chain, two for an even one, once per
\* build.
BoundaryTwirlByParity ==
  FusedQuasiBuilt =>
    ExplicitTwirlGates(qc_local, n_spins) =
      (IF n_spins % 2 = 1
         THEN << Gate(pauli_list[1], << 0 >>) >>
         ELSE << Gate(pauli_list[1], << 0 >>),
                 Gate(pauli_list[n_spins], << n_spins - 1 >>) >>)

\* an even chain of two steps with different tags at its ends
BoundaryTwirlByParityWitness ==
  /\ FusedQuasiBuilt
  /\ n_spins = 4
  /\ K = 2
  /\ pauli_list[1] = "x" /\ pauli_list[4] = "z"
  /\ Len(ExplicitTwirlGates(qc_local, n_spins)) = 2

(***************************************************************************)
(* C16.  The quasi-inverse has the structure of the exact inverse: with    *)
(* the twirl deleted (the leading twirl gates together with the barrier    *)
(* that closes them, and the boundary twirl gates), the ResultantState     *)
(* deleted, and every quasi-mirror block replaced by the plain mirror      *)
(* block on the same pair, it is the sequence create_inverse_hamiltonian   *)
(* builds from the same parameters.                                        *)
(***************************************************************************)
QuasiBuilt ==
  /\ pc = "measure"
  /\ method = 3
  /\ random_pauli_flag
  /\ K >= 1

\* what create_inverse_hamiltonian builds in steps iterations
RECURSIVE ExactInverseOf(_, _, _, _, _, _, _, _)
ExactInverseOf(ham, n, ta, ww, hx, hz, useXX, steps) ==
  IF steps = 0 THEN << >>
  ELSE (IF ham = "heisenberg"
          THEN HeisenbergInverseStep(n, ta, ww, hx, hz, useXX)
          ELSE TfimInverseStep(n, ta))
       \o ExactInverseOf(ham, n, ta, ww, hx, hz, useXX, steps - 1)

\* the leading twirl gates and their barrier, when m starts with a twirl
WithoutLeadingTwirl(m, n) ==
  IF m # << >> /\ m[1].g \in {"x", "z"} THEN SubSeq(m, n + 2, Len(m)) ELSE m

PlainMirrorFor(op, ta) ==
  IF op.g = "XXYYZZ~Q"
    THEN AppendCircuit("XXYYZZ_dg", xxyyzz_opt_gate_mirror(ta), op.q)
    ELSE op

QuasiSkeleton(m, n, ta) ==
  LET kept == SelectSeq(WithoutLeadingTwirl(m, n),
                        LAMBDA op : op.g \notin {"x", "z", "ResultantPaulis"})
  IN  [i \in 1..Len(kept) |-> PlainMirrorFor(kept[i], ta)]

\* C16: for both models and both coupling modes the quasi-inverse, its twirl and
\* resultant state deleted and its quasi-mirror blocks made plain, is the exact
\* inverse.
QuasiInverseHasInverseStructure ==
  QuasiBuilt =>
    QuasiSkeleton(qc_local, n_spins, tau)
      = ExactInverseOf(hamiltonian, n_spins, tau, w, h_x, h_z,
                       use_XX_YY_ZZ_gates, K)

\* not a claim: the same, the separate-axis Heisenberg build left out
QuasiInverseHasInverseStructureFusedOrTfim ==
  (QuasiBuilt /\ ~(hamiltonian = "heisenberg" /\ use_XX_YY_ZZ_gates)) =>
    QuasiSkeleton(qc_local, n_spins, tau)
      = ExactInverseOf(hamiltonian, n_spins, tau, w, h_x, h_z,
                       use_XX_YY_ZZ_gates, K)

(***************************************************************************)
(* C17.  create_hamiltonian, K >= 1: exactly K steps and nothing else,     *)
(* each step the local-field rotations on every qubit (Heisenberg: Rx of   *)
(* angle 2*tau*w*h_x[i] and Rz of angle 2*tau*w*h_z[i], Rx before Rz on    *)
(* each qubit; TFIM: Rx of angle 2*tau*h), a barrier, the coupling blocks, *)
(* a barrier; with tau = t / K in every step.                              *)
(***************************************************************************)
\* create_hamiltonian has returned and the build has run to its measurements
ForwardBuilt == pc = "measure" /\ K >= 1

ForwardStepLen(ham, useXX, n) ==
  FieldsOf(ham, n) + 1 + LayersOf(ham, useXX) * (n - 1) + 1

ForwardForms(ta) ==
  { xx_gate(ta), yy_gate(ta), zz_gate(ta), xxyyzz_opt_gate(ta) }

\* 2 * tau * c as an angle in radians
TwoTauTimes(ta, c) == Radians(RMul(RMul(RInt(2), ta), c))

\* the local fields of the step that starts after position base of m
FieldsFirst(m, base, n, ham, ta) ==
  IF ham = "heisenberg"
    THEN \A i \in 1..n :
           /\ m[base + i] = Rx(TwoTauTimes(ta, RInt(w * h_x[i])), i - 1)
           /\ m[base + n + i] = Rz(TwoTauTimes(ta, RInt(w * h_z[i])), i - 1)
    ELSE \A i \in 1..n : m[base + i] = Rx(TwoTauTimes(ta, Rat(1, 5)), i - 1)

\* barrier, cnt coupling blocks on neighbouring qubits, barrier
CouplingsBetweenBarriers(m, base, n, cnt, ta) ==
  /\ m[base + 1] = Barrier(n)
  /\ \A j \in 1..cnt :
       /\ IsCoupling(m[base + 1 + j])
       /\ m[base + 1 + j].ops \in ForwardForms(ta)
       /\ m[base + 1 + j].q[2] = m[base + 1 + j].q[1] + 1
  /\ m[base + 1 + cnt + 1] = Barrier(n)

ForwardStepsAsClaimed(m, ham, useXX, n, ta, steps) ==
  /\ Len(m) = steps * ForwardStepLen(ham, useXX, n)
  /\ \A s \in 0..(steps - 1) :
       LET base == s * ForwardStepLen(ham, useXX, n)
       IN  /\ FieldsFirst(m, base, n, ham, ta)
           /\ CouplingsBetweenBarriers(m, base + FieldsOf(ham, n), n,
                                       LayersOf(ham, useXX) * (n - 1), ta)

\* C17: the forward circuit is K steps of fields, barrier, couplings, barrier,
\* all built from tau = t / K.
ForwardStepsInOrder ==
  ForwardBuilt =>
    /\ tau = Rat(t, K)
    /\ ForwardStepsAsClaimed(QCH_, hamiltonian, use_XX_YY_ZZ_gates, n_spins,
                             Rat(t, K), K)
    /\ qc[2].ops = QCH_

\* two Heisenberg steps over three qubits with a tau other than 0
ForwardStepsInOrderWitness ==
  /\ ForwardBuilt
  /\ hamiltonian = "heisenberg"
  /\ n_spins = 3
  /\ K = 2
  /\ t = 1
  /\ Len(QCH_) = 2 * ForwardStepLen(hamiltonian, use_XX_YY_ZZ_gates, n_spins)
  /\ QCH_[1] = Rx(Radians(Rat(1, 1)), 0)

(***************************************************************************)
(* C18.  The fused Heisenberg quasi-inverse, n_spins >= 2: after the       *)
(* leading twirl gates the tag of every qubit is applied again exactly     *)
(* once, either by the one quasi-mirror block the qubit belongs to (which  *)
(* is keyed by the tags of its two qubits) or by one explicit boundary     *)
(* twirl gate, never both and never neither; and no qubit occurs in two    *)
(* pairs of the same pass.                                                 *)
(***************************************************************************)
OnQubit(op, qb) == \E i \in 1..Len(op.q) : op.q[i] = qb

QuasiBlocks(m) == SelectSeq(m, LAMBDA op : op.g = "XXYYZZ~Q")

\* how many instructions of s act on qubit qb
CountOn(s, qb) == Cardinality({i \in 1..Len(s) : OnQubit(s[i], qb)})

\* the pass of the idx-th coupling block of a fused build: the first blocks of
\* each step are those of pass 1
PassOfBlock(idx, n) ==
  << (idx - 1) \div (n - 1),
     IF ((idx - 1) % (n - 1)) + 1 <= Len(FirstPass(n)) THEN 1 ELSE 0 >>

\* C18: each qubit's tag is re-applied exactly once, by a quasi-mirror block or
\* by a boundary twirl gate; the pairs of a pass are disjoint.
TagReappliedExactlyOnce ==
  (FusedQuasiBuilt /\ n_spins >= 2) =>
    LET quasi == QuasiBlocks(qc_local)
        boundary == ExplicitTwirlGates(qc_local, n_spins)
        blocks == CouplingBlocks(qc_local)
    IN  /\ \A qb \in 0..(n_spins - 1) :
             CountOn(quasi, qb) + CountOn(boundary, qb) = 1
        /\ \A i \in 1..Len(quasi) :
             quasi[i].ops =
               xxyyzz_opt_gate_quasi_mirror(tau, pauli_list[quasi[i].q[1] + 1],
                                            pauli_list[quasi[i].q[2] + 1])
        /\ \A i \in 1..Len(boundary) :
             boundary[i].g = pauli_list[boundary[i].q[1] + 1]
        /\ \A i \in 1..Len(blocks), j \in 1..Len(blocks) :
             (i # j /\ PassOfBlock(i, n_spins) = PassOfBlock(j, n_spins))
               => ~Shares(blocks[i], blocks[j])

\* four qubits: one quasi-mirror block on (1, 2), boundary gates on 0 and 3
TagReappliedExactlyOnceWitness ==
  /\ FusedQuasiBuilt
  /\ n_spins = 4
  /\ K = 2
  /\ Len(QuasiBlocks(qc_local)) = 1
  /\ QuasiBlocks(qc_local)[1].q = << 1, 2 >>
  /\ CountOn(ExplicitTwirlGates(qc_local, n_spins), 0) = 1
  /\ CountOn(ExplicitTwirlGates(qc_local, n_spins), 3) = 1

====
